---- MODULE Spec2Model ----
(***************************************************************************)
(* A model of kedro-rich: the namespace resolver, the dataset/pipeline     *)
(* scope and index functions of kedro_rich/utilities/catalog_utils.py, the *)
(* progress hooks of kedro_rich/hooks.py and the run command of            *)
(* kedro_rich/rich_cli.py.                                                 *)
(*                                                                         *)
(* Python strings are sequences of one-character strings, so that          *)
(* str.replace, str.endswith, str.split and the ordering of strings are    *)
(* computed rather than assumed.  Python dicts are sequences of            *)
(* <<key, value>> pairs with distinct keys, in insertion order.            *)
(***************************************************************************)
EXTENDS Integers, Sequences, FiniteSets, TLC

VARIABLES
    \* ---- pure-function harness: the function's argument(s), its position, its result
    arg,        \* the input drawn by Init
    pc,         \* which function has been applied last ("init" before any)
    ret,        \* the value returned by the last application
    \* ---- RichHooks instance (hooks.py:21-28) and the rich Progress it owns
    progress,                 \* self.progress is not None
    task_count,               \* self.task_count
    io_datasets_in_catalog,   \* self.io_datasets_in_catalog : key -> type name
    pipeline_inputs,          \* self.pipeline_inputs        : key -> type name
    pipeline_outputs,         \* self.pipeline_outputs       : key -> type name
    tasks,                    \* the three rich tasks: total, completed, activity
    raised,                   \* the exception that left a handler or the command, or "none"
    \* ---- the host: the pipeline being run, the process environment, the command
    run,                      \* the host's current run: its phase, whether it started
                              \* with the flag set, the names its nodes declare
    envFlag,                  \* os.environ holds the progress flag
    cliPc,                    \* position inside rich_cli.run
    cliRunner,                \* the runner the command resolved
    nEvents                   \* number of hook calls and commands so far (bounded)

fnVars   == <<arg, pc, ret>>
hookVars == <<progress, task_count, io_datasets_in_catalog, pipeline_inputs,
              pipeline_outputs, tasks, raised, run>>
cliVars  == <<envFlag, cliPc, cliRunner>>
vars     == <<fnVars, hookVars, cliVars, nEvents>>

\* Python's None where the alternative is a str: a tuple no string equals.
None == <<"None">>

-----------------------------------------------------------------------------
(* Bounds of the model                                                     *)

MaxNameLen == 4     \* longest name given to the namespace resolver
MaxNodes   == 2     \* most nodes in a pipeline
MaxEvents  == 6     \* most hook calls / commands in one behaviour
MaxCatalog == 3     \* most entries of a catalog given to the index and the report
MaxRegistry == 11   \* most pipelines in a registry given to the table
MaxRows    == 2     \* most records given to the table

-----------------------------------------------------------------------------
(* Python str operations on sequences of characters                        *)

\* The characters names are built from.
Chars == {"a", "_", "."}

\* Code point of a character: '.' = 46 < '_' = 95 < 'a' = 97 < 'b' < ...
Ord(c) ==
    CASE c = "." -> 46
      [] c = "0" -> 48
      [] c = "1" -> 49
      [] c = "2" -> 50
      [] c = "A" -> 65
      [] c = "B" -> 66
      [] c = "C" -> 67
      [] c = "M" -> 77
      [] c = "P" -> 80
      [] c = "_" -> 95
      [] c = "a" -> 97
      [] c = "b" -> 98
      [] c = "c" -> 99
      [] c = "d" -> 100
      [] c = "e" -> 101
      [] c = "m" -> 109
      [] c = "n" -> 110
      [] c = "p" -> 112
      [] c = "q" -> 113
      [] c = "r" -> 114
      [] c = "s" -> 115
      [] c = "t" -> 116
      [] c = "u" -> 117
      [] c = "x" -> 120
      [] c = "y" -> 121
      [] c = "z" -> 122

\* s.startswith(p)
StartsWith(s, p) == Len(p) <= Len(s) /\ SubSeq(s, 1, Len(p)) = p

\* s.endswith(p)
EndsWith(s, p) ==
    Len(p) <= Len(s) /\ SubSeq(s, Len(s) - Len(p) + 1, Len(s)) = p

\* s.replace(old, new) for a non-empty old: left to right, non-overlapping.
RECURSIVE StrReplace(_, _, _)
StrReplace(s, old, new) ==
    IF s = <<>> THEN <<>>
    ELSE IF StartsWith(s, old)
         THEN new \o StrReplace(SubSeq(s, Len(old) + 1, Len(s)), old, new)
         ELSE <<Head(s)>> \o StrReplace(Tail(s), old, new)

\* old in s
Contains(s, old) ==
    \E i \in 1..(Len(s) - Len(old) + 1) : SubSeq(s, i, i + Len(old) - 1) = old

\* a < b for Python strings (code point order, a proper prefix first)
RECURSIVE StrLess(_, _)
StrLess(a, b) ==
    IF b = <<>> THEN FALSE
    ELSE IF a = <<>> THEN TRUE
    ELSE IF Head(a) # Head(b) THEN Ord(Head(a)) < Ord(Head(b))
    ELSE StrLess(Tail(a), Tail(b))

StrLeq(a, b) == a = b \/ StrLess(a, b)

\* All strings over Chars of length at most n.
StringsUpTo(n) == UNION {[1..k -> Chars] : k \in 0..n}

-----------------------------------------------------------------------------
(* Namespace resolver, utilities/catalog_utils.py                          *)

Dot == <<".">>
Sep == <<"_", "_">>

\* A resolver that turns every single underscore into a dot.
resolve_catalog_namespace_single(dataset_name) ==
    StrReplace(dataset_name, <<"_">>, Dot)

\* A resolver that turns every dot into a single underscore.
resolve_pipeline_namespace_single(dataset_name) ==
    StrReplace(dataset_name, Dot, <<"_">>)

resolve_pipeline_namespace(dataset_name) == StrReplace(dataset_name, Dot, Sep)

resolve_catalog_namespace(dataset_name) == StrReplace(dataset_name, Sep, Dot)

-----------------------------------------------------------------------------
(* Python dicts as sequences of <<key, value>> pairs, in insertion order   *)

DictKeys(d) == {d[i][1] : i \in DOMAIN d}

DictValues(d) == {d[i][2] : i \in DOMAIN d}

DictHas(d, k) == k \in DictKeys(d)

\* d[k] for a key the dict holds
DictGet(d, k) == d[CHOOSE i \in DOMAIN d : d[i][1] = k][2]

\* Every dict with distinct keys from ks and values from vs, in every order.
DictsOver(ks, vs) ==
    {d \in UNION {[1..n -> ks \X vs] : n \in 0..Cardinality(ks)} :
        \A i, j \in DOMAIN d : i # j => d[i][1] # d[j][1]}

-----------------------------------------------------------------------------
(* Pipelines: a sequence of nodes, each with its declared input and output *)
(* names and an optional namespace                                         *)

\* `if namespace:` is false for None and for the empty string.
Truthy(namespace) == namespace # None /\ namespace # <<>>

\* Every sequence of at most n distinct elements of S.
SeqsOfDistinct(S, n) ==
    {q \in UNION {[1..k -> S] : k \in 0..n} :
        \A i, j \in DOMAIN q : i # j => q[i] # q[j]}

-----------------------------------------------------------------------------
(* Scope of a pipeline in a dataset mapping                                *)

\* A _clean_names that also puts the namespace in front of every name.
hooks_clean_names_prefixed(datasets, namespace) ==
    IF Truthy(namespace)
    THEN {namespace \o Sep \o StrReplace(x, Dot, Sep) : x \in datasets}
    ELSE datasets

\* _clean_names of hooks.py
hooks_clean_names(datasets, namespace) ==
    IF Truthy(namespace)
    THEN {StrReplace(x, Dot, Sep) : x \in datasets}
    ELSE datasets

\* reduce(lambda a, x: a | _clean_names(x[port], x.namespace), nodes, set())
\* of hooks.py, port being "inputs" or "outputs"
RECURSIVE hooks_reduce_clean_names(_, _)
hooks_reduce_clean_names(nodes, port) ==
    IF nodes = <<>> THEN {}
    ELSE hooks_reduce_clean_names(SubSeq(nodes, 1, Len(nodes) - 1), port)
            \cup hooks_clean_names(nodes[Len(nodes)][port], nodes[Len(nodes)].namespace)

\* _clean_names of utilities/catalog_utils.py
clean_names(datasets, namespace) ==
    IF Truthy(namespace)
    THEN {resolve_pipeline_namespace(x) : x \in datasets}
    ELSE datasets

\* reduce(lambda a, x: a | _clean_names(x[port], x.namespace), nodes, set())
\* of utilities/catalog_utils.py
RECURSIVE reduce_clean_names(_, _)
reduce_clean_names(nodes, port) ==
    IF nodes = <<>> THEN {}
    ELSE reduce_clean_names(SubSeq(nodes, 1, Len(nodes) - 1), port)
            \cup clean_names(nodes[Len(nodes)][port], nodes[Len(nodes)].namespace)

\* A scope that flattens the names of every node, namespaced or not.
get_persisted_datasets_in_scope_flatten_all(non_memory, pipe) ==
    LET inputs  == UNION {{StrReplace(y, Dot, Sep) : y \in pipe[i].inputs} :
                            i \in DOMAIN pipe}
        outputs == UNION {{StrReplace(y, Dot, Sep) : y \in pipe[i].outputs} :
                            i \in DOMAIN pipe}
    IN  <<SelectSeq(non_memory, LAMBDA kv : kv[1] \in inputs),
          SelectSeq(non_memory, LAMBDA kv : kv[1] \in outputs)>>

\* RichHooks._get_persisted_datasets_in_scope: exact match.
get_persisted_datasets_in_scope(non_memory, pipe) ==
    LET inputs  == hooks_reduce_clean_names(pipe, "inputs")
        outputs == hooks_reduce_clean_names(pipe, "outputs")
        persisted_inputs  == SelectSeq(non_memory, LAMBDA kv : kv[1] \in inputs)
        persisted_outputs == SelectSeq(non_memory, LAMBDA kv : kv[1] \in outputs)
    IN  <<persisted_inputs, persisted_outputs>>

\* A filter that keeps a key only when it equals a resolved name.
filter_datasets_by_pipeline_exact(datasets, pipeline) ==
    LET inputs  == reduce_clean_names(pipeline, "inputs")
        outputs == reduce_clean_names(pipeline, "outputs")
    IN  <<SelectSeq(datasets, LAMBDA kv : kv[1] \in inputs),
          SelectSeq(datasets, LAMBDA kv : kv[1] \in outputs)>>

\* filter_datasets_by_pipeline of utilities/catalog_utils.py:
\* a key is kept when some resolved name ends with it.
filter_datasets_by_pipeline(datasets, pipeline) ==
    LET inputs  == reduce_clean_names(pipeline, "inputs")
        outputs == reduce_clean_names(pipeline, "outputs")
        pipeline_inputs_  ==
            SelectSeq(datasets, LAMBDA kv : \E x \in inputs : EndsWith(x, kv[1]))
        pipeline_outputs_ ==
            SelectSeq(datasets, LAMBDA kv : \E x \in outputs : EndsWith(x, kv[1]))
    IN  <<pipeline_inputs_, pipeline_outputs_>>

-----------------------------------------------------------------------------
(* Python list and str helpers used by the index and the report            *)

\* s.split(sep) for a one-character sep
RECURSIVE StrSplit(_, _)
StrSplit(s, sep) ==
    IF \A i \in DOMAIN s : s[i] # sep THEN <<s>>
    ELSE LET i == CHOOSE i \in DOMAIN s :
                     s[i] = sep /\ \A j \in 1..(i - 1) : s[j] # sep
         IN  <<SubSeq(s, 1, i - 1)>> \o StrSplit(SubSeq(s, i + 1, Len(s)), sep)

\* sep.join(parts)
RECURSIVE StrJoin(_, _)
StrJoin(sep, parts) ==
    IF parts = <<>> THEN <<>>
    ELSE IF Len(parts) = 1 THEN parts[1]
    ELSE parts[1] \o sep \o StrJoin(sep, Tail(parts))

\* A set listed in some order (the iteration order of a Python set).
RECURSIVE SetToSeq(_)
SetToSeq(S) ==
    IF S = {} THEN <<>>
    ELSE LET x == CHOOSE x \in S : TRUE IN <<x>> \o SetToSeq(S \ {x})

\* seq, sorted by field, with x inserted in front of the first element whose
\* field is not less than x's
RECURSIVE InsertBeforeEqual(_, _, _)
InsertBeforeEqual(field, x, seq) ==
    IF seq = <<>> THEN <<x>>
    ELSE IF StrLeq(x[field], Head(seq)[field]) THEN <<x>> \o seq
    ELSE <<Head(seq)>> \o InsertBeforeEqual(field, x, Tail(seq))

\* seq, sorted by field, with x inserted behind every element whose field
\* is not greater than x's
RECURSIVE InsertBy(_, _, _)
InsertBy(field, x, seq) ==
    IF seq = <<>> THEN <<x>>
    ELSE IF StrLess(x[field], Head(seq)[field]) THEN <<x>> \o seq
    ELSE <<Head(seq)>> \o InsertBy(field, x, Tail(seq))

\* sorted(seq, key=itemgetter(field)): ascending and stable
RECURSIVE SortedBy(_, _)
SortedBy(field, seq) ==
    IF seq = <<>> THEN <<>>
    ELSE InsertBy(field, seq[Len(seq)], SortedBy(field, SubSeq(seq, 1, Len(seq) - 1)))

\* reduce(lambda x, y: x + y, lists) for a non-empty sequence of lists
RECURSIVE Concat(_)
Concat(lists) ==
    IF Len(lists) = 1 THEN lists[1] ELSE lists[1] \o Concat(Tail(lists))

\* {k: list(map(itemgetter(1), v)) for k, v in groupby(pairs, itemgetter(0))}:
\* one entry per run of consecutive pairs with the same first component.
RECURSIVE GroupByFirst(_)
GroupByFirst(pairs) ==
    IF pairs = <<>> THEN <<>>
    ELSE LET k == pairs[1][1]
             n == CHOOSE n \in 1..Len(pairs) :
                     /\ \A i \in 1..n : pairs[i][1] = k
                     /\ n < Len(pairs) => pairs[n + 1][1] # k
         IN  <<<<k, [i \in 1..n |-> pairs[i][2]]>>>>
                 \o GroupByFirst(SubSeq(pairs, n + 1, Len(pairs)))

-----------------------------------------------------------------------------
(* Dataset classifier, index and report, utilities/catalog_utils.py        *)

Memory == <<"M">>         \* stands for the type name "MemoryDataSet"
Pickle == <<"P">>         \* stands for the type name "PickleDataSet"

Params     == <<"p", "a", "r", "a", "m", "s">>
Parameters == <<"p", "a", "r", "a", "m", "e", "t", "e", "r", "s">>

\* A classifier that drops the parameter entries whatever drop_params says.
get_catalog_datasets_drop_always(catalog, exclude_types, drop_params) ==
    SelectSeq(catalog,
              LAMBDA kv : /\ kv[2] \notin exclude_types
                          /\ ~StartsWith(kv[1], Params)
                          /\ ~(kv[1] = Parameters))

\* catalog: the entries of catalog.datasets.__dict__ as <<key, type name>>
get_catalog_datasets(catalog, exclude_types, drop_params) ==
    LET datasets_filtered ==
            SelectSeq(catalog, LAMBDA kv : kv[2] \notin exclude_types)
        datasets_w_param_filter ==
            SelectSeq(datasets_filtered,
                      LAMBDA kv : ~StartsWith(kv[1], Params) /\ ~(kv[1] = Parameters))
    IN  IF drop_params THEN datasets_w_param_filter ELSE datasets_filtered

\* Sorting the pairs whole, by dataset and then by pipeline.
sort_pairs_by_dataset_and_pipeline(dataset_pipeline_pairs) ==
    SortedBy(1, SortedBy(2, dataset_pipeline_pairs))

\* The pairs left in the order the registry produced them.
sort_pairs_not_at_all(dataset_pipeline_pairs) ==
    dataset_pipeline_pairs

\* sorted(dataset_pipeline_pairs, key=operator.itemgetter(0))
sort_pairs_by_dataset(dataset_pipeline_pairs) ==
    SortedBy(1, dataset_pipeline_pairs)

\* registry: <<pipeline name, pipeline>> pairs in the registry's order.
\* The result is [raised, value]: reduce() without initial value raises
\* TypeError on an empty registry.
get_datasets_by_pipeline(catalog, registry) ==
    LET catalog_datasets == get_catalog_datasets(catalog, {}, TRUE)
        pipeline_input_output_datasets ==
            [i \in DOMAIN registry |->
                <<registry[i][1],
                  filter_datasets_by_pipeline(catalog_datasets, registry[i][2])>>]
        pipeline_datasets ==
            [i \in DOMAIN registry |->
                <<pipeline_input_output_datasets[i][1],
                  DictKeys(pipeline_input_output_datasets[i][2][1])
                      \cup DictKeys(pipeline_input_output_datasets[i][2][2])>>]
        lists ==
            [i \in DOMAIN registry |->
                LET datasets == SetToSeq(pipeline_datasets[i][2])
                IN  [j \in DOMAIN datasets |->
                        <<datasets[j], pipeline_datasets[i][1]>>]]
    IN  IF registry = <<>>
        THEN [raised |-> "TypeError", value |-> <<>>]
        ELSE LET dataset_pipeline_pairs == Concat(lists)
                 sorter == sort_pairs_by_dataset(dataset_pipeline_pairs)
                 dataset_pipeline_groups == GroupByFirst(sorter)
             IN  [raised |-> "none", value |-> dataset_pipeline_groups]

split_catalog_namespace_key(dataset_name) ==
    LET dataset_split == StrSplit(dataset_name, ".")
        namespace ==
            StrJoin(Dot, SubSeq(dataset_split, 1, Len(dataset_split) - 1))
    IN  IF namespace # <<>>
        THEN <<namespace, dataset_split[Len(dataset_split)]>>
        ELSE <<None, dataset_name>>

\* The record of one entry of catalog_datasets.
report_record(pipeline_datasets, kv) ==
    LET split == split_catalog_namespace_key(resolve_catalog_namespace(kv[1]))
    IN  [dataset_type |-> kv[2],
         pipelines    |-> IF DictHas(pipeline_datasets, kv[1])
                          THEN DictGet(pipeline_datasets, kv[1]) ELSE <<>>,
         namespace    |-> split[1],
         key          |-> split[2]]

\* A report that leaves out the datasets no pipeline references.
report_datasets_as_list_indexed_only(pipeline_datasets, catalog_datasets) ==
    LET kept == SelectSeq(catalog_datasets,
                          LAMBDA kv : DictHas(pipeline_datasets, kv[1]))
    IN  SortedBy("dataset_type",
                 [i \in DOMAIN kept |-> report_record(pipeline_datasets, kept[i])])

report_datasets_as_list(pipeline_datasets, catalog_datasets) ==
    SortedBy("dataset_type",
             [i \in DOMAIN catalog_datasets |->
                 report_record(pipeline_datasets, catalog_datasets[i])])

-----------------------------------------------------------------------------
(* The hooks and the command before anything has run                       *)

TaskNames == {"overall", "loads", "saves"}

\* The host has started no run yet.
NoRun == [phase |-> "none", enabled |-> FALSE, inputs |-> {}, outputs |-> {}]

HooksConstructed ==
    /\ progress = FALSE
    /\ task_count = 0
    /\ io_datasets_in_catalog = <<>>
    /\ pipeline_inputs = <<>>
    /\ pipeline_outputs = <<>>
    /\ tasks = <<>>
    /\ raised = "none"
    /\ run = NoRun
    /\ envFlag = FALSE
    /\ cliPc = "idle"
    /\ cliRunner = "none"
    /\ nEvents = 0

-----------------------------------------------------------------------------
(* RichHooks, hooks.py, and the rich Progress it drives                    *)

\* activity="" of a new task, and the activities the handlers set
NoActivity == <<>>
PipelineComplete == <<"Pipeline complete">>
LoadActivity(dataset_name, dataset_type) == <<"load", dataset_name, dataset_type>>
SaveActivity(namespace, data, dataset_type) == <<"save", namespace, data, dataset_type>>
NodeActivity(func_name) == <<"fx", func_name>>

\* completed=100 of after_pipeline_run
CompletedOnFinish == 100

\* The catalog's entries with the in-memory ones kept.
get_persisted_datasets_keep_memory(catalog) ==
    catalog

\* RichHooks._get_persisted_datasets
get_persisted_datasets(catalog) ==
    SelectSeq(catalog, LAMBDA kv : kv[2] # Memory)

\* RichHooks._add_progress_task: Progress.add_task(description, total=count,
\* activity=""), a task starting with completed = 0
add_progress_task(count) ==
    [total |-> count, completed |-> 0, activity |-> NoActivity]

\* Progress.update(task, advance=1, activity=...): completed += advance
progress_advance(ts, task, activity) ==
    [ts EXCEPT ![task].completed = @ + 1, ![task].activity = activity]

\* An update that advances the task and clears its activity.
progress_advance_clearing(ts, task) ==
    [ts EXCEPT ![task].completed = @ + 1, ![task].activity = NoActivity]

\* Progress.update(task, advance=1)
progress_advance_only(ts, task) ==
    [ts EXCEPT ![task].completed = @ + 1]

\* Progress.update(task, activity=...)
progress_activity(ts, task, activity) ==
    [ts EXCEPT ![task].activity = activity]

\* Progress.update(task, completed=n)
progress_completed(ts, task, n) ==
    [ts EXCEPT ![task].completed = n]

\* A run start that computes the scope in the whole catalog, in-memory
\* entries included.
hooks_started_scope_in_catalog(pipeline, catalog) ==
    LET io    == get_persisted_datasets(catalog)
        scope == get_persisted_datasets_in_scope(catalog, pipeline)
    IN  [task_count |-> Len(pipeline),
         io_datasets_in_catalog |-> io,
         pipeline_inputs  |-> scope[1],
         pipeline_outputs |-> scope[2],
         tasks |-> [t \in TaskNames |->
                      add_progress_task(
                        CASE t = "overall" -> Len(pipeline)
                          [] t = "loads"   -> Len(scope[1])
                          [] t = "saves"   -> Len(scope[2]))]]

\* A run start that adds its totals to tasks that go on counting from where
\* the tasks of an earlier run stand.
hooks_started_reuse_tasks(pipeline, catalog) ==
    LET io    == get_persisted_datasets(catalog)
        scope == get_persisted_datasets_in_scope(io, pipeline)
    IN  [task_count |-> Len(pipeline),
         io_datasets_in_catalog |-> io,
         pipeline_inputs  |-> scope[1],
         pipeline_outputs |-> scope[2],
         tasks |-> [t \in TaskNames |->
                      [add_progress_task(
                        CASE t = "overall" -> Len(pipeline)
                          [] t = "loads"   -> Len(scope[1])
                          [] t = "saves"   -> Len(scope[2]))
                       EXCEPT !.completed =
                                IF progress THEN tasks[t].completed ELSE 0]]]

\* before_pipeline_run with the flag set: the state it leaves in the hooks
hooks_started(pipeline, catalog) ==
    LET io    == get_persisted_datasets(catalog)
        scope == get_persisted_datasets_in_scope(io, pipeline)
    IN  [task_count |-> Len(pipeline),
         io_datasets_in_catalog |-> io,
         pipeline_inputs  |-> scope[1],
         pipeline_outputs |-> scope[2],
         tasks |-> [t \in TaskNames |->
                      add_progress_task(
                        CASE t = "overall" -> Len(pipeline)
                          [] t = "loads"   -> Len(scope[1])
                          [] t = "saves"   -> Len(scope[2]))]]

\* A load handler that counts every dataset the catalog holds a type for,
\* in scope or not.
dataset_loaded_unscoped(dataset_name) ==
    LET dataset_name_namespaced == StrReplace(dataset_name, Dot, Sep)
    IN  [raised |-> "none",
         tasks  |-> progress_advance(tasks, "loads",
                      LoadActivity(dataset_name,
                          IF DictHas(io_datasets_in_catalog, dataset_name_namespaced)
                          THEN DictGet(io_datasets_in_catalog, dataset_name_namespaced)
                          ELSE None))]

\* What after_dataset_loaded(dataset_name) does to the tasks, and whether its
\* type lookup raises, in a state where self.progress is set.
dataset_loaded(dataset_name) ==
    LET dataset_name_namespaced == StrReplace(dataset_name, Dot, Sep)
    IN  IF DictHas(pipeline_inputs, dataset_name)
        THEN IF DictHas(io_datasets_in_catalog, dataset_name_namespaced)
             THEN [raised |-> "none",
                   tasks  |-> progress_advance(tasks, "loads",
                                LoadActivity(dataset_name,
                                    DictGet(io_datasets_in_catalog,
                                            dataset_name_namespaced)))]
             ELSE [raised |-> "KeyError", tasks |-> tasks]
        ELSE [raised |-> "none", tasks |-> tasks]

\* What after_dataset_saved(dataset_name) does, likewise.
dataset_saved(dataset_name) ==
    LET dataset_name_namespaced == StrReplace(dataset_name, Dot, Sep)
        dataset_split == StrSplit(dataset_name, ".")
        namespace == StrJoin(Dot, SubSeq(dataset_split, 1, Len(dataset_split) - 1))
        data == dataset_split[Len(dataset_split)]
    IN  IF DictHas(pipeline_outputs, dataset_name_namespaced)
        THEN IF DictHas(io_datasets_in_catalog, dataset_name_namespaced)
             THEN [raised |-> "none",
                   tasks  |-> progress_advance(tasks, "saves",
                                SaveActivity(namespace, data,
                                    DictGet(io_datasets_in_catalog,
                                            dataset_name_namespaced)))]
             ELSE [raised |-> "KeyError", tasks |-> tasks]
        ELSE [raised |-> "none", tasks |-> tasks]

\* The names declared by the nodes of a pipeline, as the host delivers them.
DeclaredNames(pipeline, port) == UNION {pipeline[i][port] : i \in DOMAIN pipeline}

\* The host calls a hook, or the command runs, only while no exception has
\* ended the process; MaxEvents bounds the behaviour.
Alive == raised = "none" /\ nEvents < MaxEvents

before_pipeline_run(pipeline, catalog) ==
    /\ Alive
    /\ cliPc \in {"idle", "session"}
    /\ nEvents' = nEvents + 1
    /\ cliPc' = IF cliPc = "session" THEN "running" ELSE cliPc
    /\ run' = [phase |-> "running", enabled |-> envFlag,
               inputs  |-> DeclaredNames(pipeline, "inputs"),
               outputs |-> DeclaredNames(pipeline, "outputs")]
    /\ IF envFlag
       THEN LET h == hooks_started(pipeline, catalog)
            IN  /\ progress' = TRUE
                /\ task_count' = h.task_count
                /\ io_datasets_in_catalog' = h.io_datasets_in_catalog
                /\ pipeline_inputs' = h.pipeline_inputs
                /\ pipeline_outputs' = h.pipeline_outputs
                /\ tasks' = h.tasks
       ELSE UNCHANGED <<progress, task_count, io_datasets_in_catalog,
                        pipeline_inputs, pipeline_outputs, tasks>>
    /\ UNCHANGED <<raised, envFlag, cliRunner, fnVars>>

after_dataset_loaded(dataset_name) ==
    /\ Alive
    /\ run.phase # "none"
    /\ nEvents' = nEvents + 1
    /\ IF progress
       THEN /\ tasks' = dataset_loaded(dataset_name).tasks
            /\ raised' = dataset_loaded(dataset_name).raised
       ELSE UNCHANGED <<tasks, raised>>
    /\ UNCHANGED <<progress, task_count, io_datasets_in_catalog, pipeline_inputs,
                   pipeline_outputs, run, cliVars, fnVars>>

after_dataset_saved(dataset_name) ==
    /\ Alive
    /\ run.phase # "none"
    /\ nEvents' = nEvents + 1
    /\ IF progress
       THEN /\ tasks' = dataset_saved(dataset_name).tasks
            /\ raised' = dataset_saved(dataset_name).raised
       ELSE UNCHANGED <<tasks, raised>>
    /\ UNCHANGED <<progress, task_count, io_datasets_in_catalog, pipeline_inputs,
                   pipeline_outputs, run, cliVars, fnVars>>

before_node_run(func_name) ==
    /\ Alive
    /\ run.phase # "none"
    /\ nEvents' = nEvents + 1
    /\ IF progress
       THEN tasks' = progress_activity(tasks, "overall", NodeActivity(func_name))
       ELSE UNCHANGED tasks
    /\ UNCHANGED <<progress, task_count, io_datasets_in_catalog, pipeline_inputs,
                   pipeline_outputs, raised, run, cliVars, fnVars>>

after_node_run ==
    /\ Alive
    /\ run.phase # "none"
    /\ nEvents' = nEvents + 1
    /\ IF progress
       THEN tasks' = progress_advance_only(tasks, "overall")
       ELSE UNCHANGED tasks
    /\ UNCHANGED <<progress, task_count, io_datasets_in_catalog, pipeline_inputs,
                   pipeline_outputs, raised, run, cliVars, fnVars>>

after_pipeline_run ==
    /\ Alive
    /\ run.phase # "none"
    /\ nEvents' = nEvents + 1
    /\ run' = [run EXCEPT !.phase = "finished"]
    /\ cliPc' = IF cliPc = "running" THEN "ran" ELSE cliPc
    /\ IF progress
       THEN tasks' =
              progress_completed(
                progress_completed(
                  progress_activity(tasks, "overall", PipelineComplete),
                  "saves", CompletedOnFinish),
                "loads", CompletedOnFinish)
       ELSE UNCHANGED tasks
    /\ UNCHANGED <<progress, task_count, io_datasets_in_catalog, pipeline_inputs,
                   pipeline_outputs, raised, envFlag, cliRunner, fnVars>>

-----------------------------------------------------------------------------
(* The run command, rich_cli.py:117-163                                    *)

\* The values of --runner: absent, or a runner's name
RunnerOptions == {"none", "SequentialRunner", "ParallelRunner"}

\* A command that resolves the runner and the flag and creates the session
\* before it rejects --parallel given together with --runner.
cli_run_rejecting_late(parallel, runner) ==
    /\ Alive
    /\ cliPc = "idle"
    /\ nEvents' = nEvents + 1
    /\ cliRunner' = IF parallel THEN "ParallelRunner"
                    ELSE IF runner # "none" THEN runner
                    ELSE "SequentialRunner"
    /\ envFlag' = IF parallel THEN envFlag ELSE TRUE
    /\ cliPc' = "session"
    /\ raised' = IF parallel /\ runner # "none" THEN "KedroCliError" ELSE raised
    /\ UNCHANGED <<progress, task_count, io_datasets_in_catalog, pipeline_inputs,
                   pipeline_outputs, tasks, run, fnVars>>

\* rich_cli.run up to the session's run (lines 134-150)
cli_run(parallel, runner) ==
    /\ Alive
    /\ cliPc = "idle"
    /\ nEvents' = nEvents + 1
    /\ IF parallel /\ runner # "none"
       THEN /\ raised' = "KedroCliError"
            /\ UNCHANGED <<envFlag, cliPc, cliRunner>>
       ELSE /\ cliRunner' = IF parallel THEN "ParallelRunner"
                            ELSE IF runner # "none" THEN runner
                            ELSE "SequentialRunner"
            /\ envFlag' = IF parallel THEN envFlag ELSE TRUE
            /\ cliPc' = "session"
            /\ UNCHANGED raised
    /\ UNCHANGED <<progress, task_count, io_datasets_in_catalog, pipeline_inputs,
                   pipeline_outputs, tasks, run, fnVars>>

\* rich_cli.run after the session's run has returned (lines 162-163)
cli_run_return ==
    /\ Alive
    /\ cliPc = "ran"
    /\ nEvents' = nEvents + 1
    /\ envFlag' = FALSE
    /\ cliPc' = "idle"
    /\ UNCHANGED <<cliRunner, hookVars, fnVars>>

-----------------------------------------------------------------------------
(* Specification of a process: the command and the host's hook calls       *)

RunPortNames == {<<"a">>, <<"n", ".", "c">>}

RunKeys == {<<"a">>, <<"n", "_", "_", "c">>}

\* The names the host reports: the declared names, a flat key, a stranger.
EventNames == RunPortNames \cup RunKeys \cup {<<"u">>}

NodeA == [inputs |-> {<<"a">>}, outputs |-> {<<"n", ".", "c">>}, namespace |-> <<"n">>]
NodeB == [inputs |-> {<<"n", ".", "c">>}, outputs |-> {<<"a">>}, namespace |-> <<"n">>]
NodeC == [inputs |-> {<<"a">>}, outputs |-> {<<"a">>}, namespace |-> None]
NodeD == [inputs |-> {<<"n", ".", "c">>}, outputs |-> {<<"n", ".", "c">>},
          namespace |-> None]

RunNodePool == {NodeA, NodeB, NodeC, NodeD}

\* pipeline.nodes: the nodes of a pipeline in their (sorted) order
RunPipelines ==
    {SetToSeq(ns) : ns \in {ns \in SUBSET RunNodePool : Cardinality(ns) <= MaxNodes}}

RunCatalogs == DictsOver(RunKeys, {Pickle, Memory})

FuncNames == {"f"}

Init ==
    /\ arg = None
    /\ pc = "init"
    /\ ret = None
    /\ HooksConstructed

BeforePipelineRun ==
    \E pipeline \in RunPipelines, catalog \in RunCatalogs :
        before_pipeline_run(pipeline, catalog)

AfterDatasetLoaded == \E dataset_name \in EventNames : after_dataset_loaded(dataset_name)

AfterDatasetSaved == \E dataset_name \in EventNames : after_dataset_saved(dataset_name)

BeforeNodeRun == \E func_name \in FuncNames : before_node_run(func_name)

AfterNodeRun == after_node_run

AfterPipelineRun == after_pipeline_run

CliRun == \E parallel \in BOOLEAN, runner \in RunnerOptions : cli_run(parallel, runner)

CliRunReturn == cli_run_return

Next ==
    \/ CliRun
    \/ BeforePipelineRun
    \/ AfterDatasetLoaded
    \/ AfterDatasetSaved
    \/ BeforeNodeRun
    \/ AfterNodeRun
    \/ AfterPipelineRun
    \/ CliRunReturn

Spec == Init /\ [][Next]_vars

\* The correlator is Running: the current run started with the flag set
\* and has not finished.
Running == progress /\ run.phase = "running" /\ run.enabled

\* The correlator is Completed: the current run started with the flag set
\* and after_pipeline_run has been delivered.
Completed == progress /\ run.phase = "finished" /\ run.enabled

\* The three counters.
Done(ts) == [t \in TaskNames |-> ts[t].completed]

-----------------------------------------------------------------------------
(* C1 *)

\* C1: in state Running, dataset-loaded(rawName) adds exactly 1 to loadDone
\* when rawName is a declared pipeline input and toFlatKey(rawName) is a key
\* the classifier produced a type for; for every other rawName no counter
\* changes; in neither case is an error raised.
C1_LoadedCountsDeclaredInputs ==
    [][\A n \in EventNames :
          (Running /\ after_dataset_loaded(n)) =>
              /\ raised' = "none"
              /\ IF /\ n \in run.inputs
                    /\ DictHas(io_datasets_in_catalog, resolve_pipeline_namespace(n))
                 THEN Done(tasks') = [Done(tasks) EXCEPT !["loads"] = @ + 1]
                 ELSE Done(tasks') = Done(tasks)]_vars

-----------------------------------------------------------------------------
(* C2 *)

\* C2: in a run whose scope inputs equal its scope outputs, for every
\* rawName, dataset-saved(rawName) increments saveDone if and only if
\* dataset-loaded(rawName) increments loadDone.
C2_SavedSymmetricToLoaded ==
    (Running /\ DictKeys(pipeline_inputs) = DictKeys(pipeline_outputs)) =>
        \A n \in EventNames :
            (Done(dataset_saved(n).tasks)["saves"] = Done(tasks)["saves"] + 1)
                <=> (Done(dataset_loaded(n).tasks)["loads"] = Done(tasks)["loads"] + 1)

-----------------------------------------------------------------------------
(* C3 *)

\* C3: in every reachable state of a run no counter exceeds its declared
\* total.
C3_DoneWithinTotal ==
    (progress /\ run.enabled) =>
        \A t \in TaskNames : tasks[t].completed <= tasks[t].total

-----------------------------------------------------------------------------
(* C4 *)

\* C4: run-finished sets the activity to the terminal marker, and no event
\* delivered after it, while the run stays finished, changes a counter or an
\* activity.
C4_NothingAfterRunFinished ==
    [][/\ (Running /\ after_pipeline_run) =>
            tasks'["overall"].activity = PipelineComplete
       /\ (Completed /\ run'.phase = "finished") => tasks' = tasks]_vars

-----------------------------------------------------------------------------
(* C5 *)

\* C5: while the run command runs with ParallelRunner as its resolved
\* runner, the progress flag is not set, and the run it starts creates no
\* progress state.
C5_NoProgressUnderParallelRunner ==
    (cliPc # "idle" /\ cliRunner = "ParallelRunner") =>
        /\ ~envFlag
        /\ cliPc \in {"running", "ran"} => ~run.enabled

-----------------------------------------------------------------------------
(* Specification of the resolver: a name is drawn, flattened, and          *)
(* converted back.                                                         *)

ResolverInit ==
    /\ arg \in StringsUpTo(MaxNameLen)
    /\ pc = "init"
    /\ ret = None
    /\ HooksConstructed

ApplyResolvePipelineNamespace ==
    /\ pc = "init"
    /\ ret' = resolve_pipeline_namespace(arg)
    /\ pc' = "flat"
    /\ UNCHANGED <<arg, hookVars, cliVars, nEvents>>

ApplyResolveCatalogNamespace ==
    /\ pc = "flat"
    /\ ret' = resolve_catalog_namespace(ret)
    /\ pc' = "dotted"
    /\ UNCHANGED <<arg, hookVars, cliVars, nEvents>>

ResolverNext == ApplyResolvePipelineNamespace \/ ApplyResolveCatalogNamespace

SpecResolver == ResolverInit /\ [][ResolverNext]_vars

-----------------------------------------------------------------------------
(* Specification of the scope functions: a dataset mapping and a pipeline  *)
(* are drawn, and one of the two scope functions is applied to them.       *)

\* Names the nodes declare: plain, plain, and dotted (namespaced).
PortNames == {<<"a">>, <<"c">>, <<"n", ".", "c">>}

\* Keys of the dataset mapping: the catalog writes a namespace with "__".
ScopeKeys == {<<"a">>, <<"c">>, <<"n", "_", "_", "c">>}

Namespaces == {None, <<"n">>}

NodePool ==
    [inputs : {{p} : p \in PortNames}, outputs : {{p} : p \in PortNames},
     namespace : Namespaces]

ScopeInit ==
    /\ arg \in [datasets : DictsOver(ScopeKeys, {Pickle}),
                 pipeline : SeqsOfDistinct(NodePool, MaxNodes)]
    /\ pc = "init"
    /\ ret = None
    /\ HooksConstructed

ApplyGetPersistedDatasetsInScope ==
    /\ pc = "init"
    /\ ret' = get_persisted_datasets_in_scope(arg.datasets, arg.pipeline)
    /\ pc' = "hooks_scope"
    /\ UNCHANGED <<arg, hookVars, cliVars, nEvents>>

ApplyFilterDatasetsByPipeline ==
    /\ pc = "init"
    /\ ret' = filter_datasets_by_pipeline(arg.datasets, arg.pipeline)
    /\ pc' = "filter"
    /\ UNCHANGED <<arg, hookVars, cliVars, nEvents>>

ScopeNext == ApplyGetPersistedDatasetsInScope \/ ApplyFilterDatasetsByPipeline

SpecScope == ScopeInit /\ [][ScopeNext]_vars

\* The resolved names of one port ("inputs" or "outputs") of a pipeline:
\* flattened for the nodes that have a namespace, as declared for the others.
ResolvedNames(pipeline, port) ==
    UNION {IF pipeline[i].namespace # None
              THEN {resolve_pipeline_namespace(n) : n \in pipeline[i][port]}
              ELSE pipeline[i][port] : i \in DOMAIN pipeline}

\* The entries of a result are entries of the mapping it was computed from.
EntriesOf(result, datasets) ==
    \A i \in DOMAIN result : \E j \in DOMAIN datasets : result[i] = datasets[j]

-----------------------------------------------------------------------------
(* C6 *)

\* C6 as stated: in the suffix-match scope of the utilities, a key k is in
\* the inputs (outputs) iff some resolved input (output) name n has k = n
\* or k ending with n.
C6_KeyEndsWithName ==
    pc = "filter" =>
        \A k \in DictKeys(arg.datasets) :
            /\ k \in DictKeys(ret[1]) <=>
                 \E n \in ResolvedNames(arg.pipeline, "inputs") :
                    k = n \/ EndsWith(k, n)
            /\ k \in DictKeys(ret[2]) <=>
                 \E n \in ResolvedNames(arg.pipeline, "outputs") :
                    k = n \/ EndsWith(k, n)

\* C6 amended: a key k is in the inputs (outputs) iff some resolved input
\* (output) name n has n = k or n ending with k: the name ends with the key.
C6_NameEndsWithKey ==
    pc = "filter" =>
        /\ \A k \in DictKeys(arg.datasets) :
            /\ k \in DictKeys(ret[1]) <=>
                 \E n \in ResolvedNames(arg.pipeline, "inputs") :
                    n = k \/ EndsWith(n, k)
            /\ k \in DictKeys(ret[2]) <=>
                 \E n \in ResolvedNames(arg.pipeline, "outputs") :
                    n = k \/ EndsWith(n, k)
        /\ EntriesOf(ret[1], arg.datasets)
        /\ EntriesOf(ret[2], arg.datasets)

\* The key "c" is in the inputs only because the resolved name "n__c" ends
\* with it, while the key "n__c" itself is not in the mapping.
C6_Witness ==
    /\ pc = "filter"
    /\ <<"c">> \in DictKeys(ret[1])
    /\ <<"c">> \notin ResolvedNames(arg.pipeline, "inputs")
    /\ <<"n", "_", "_", "c">> \in ResolvedNames(arg.pipeline, "inputs")
    /\ <<"n", "_", "_", "c">> \notin DictKeys(arg.datasets)

-----------------------------------------------------------------------------
(* C9 *)

\* C9: the scope used for progress tracking holds exactly the keys of the
\* persisted mapping that equal a resolved input (output) name, the names of
\* a node being flattened when the node has a namespace and left unchanged
\* otherwise; no suffix matching.
C9_ExactScope ==
    pc = "hooks_scope" =>
        /\ DictKeys(ret[1]) =
              DictKeys(arg.datasets) \cap ResolvedNames(arg.pipeline, "inputs")
        /\ DictKeys(ret[2]) =
              DictKeys(arg.datasets) \cap ResolvedNames(arg.pipeline, "outputs")
        /\ EntriesOf(ret[1], arg.datasets)
        /\ EntriesOf(ret[2], arg.datasets)

\* A non-empty exact scope that leaves out the key "c" although a resolved
\* input name, "n__c", ends with it, and that keeps the dotted name of a
\* node without namespace unflattened.
C9_Witness ==
    /\ pc = "hooks_scope"
    /\ <<"c">> \in DictKeys(arg.datasets)
    /\ <<"c">> \notin DictKeys(ret[1])
    /\ <<"n", "_", "_", "c">> \in DictKeys(ret[1])
    /\ <<"n", ".", "c">> \in ResolvedNames(arg.pipeline, "outputs")
    /\ <<"n", "_", "_", "c">> \notin DictKeys(ret[2])
    /\ <<"a">> \in DictKeys(ret[2])

-----------------------------------------------------------------------------
(* Specification of the index and the report: a catalog and a registry are *)
(* drawn, the index is computed, and the report is built from the index    *)
(* and a classification of the catalog.                                    *)

IndexKeys == {<<"x">>, <<"y">>, <<"z">>, <<"n", "_", "_", "z">>}

IndexCatalogs ==
    {d \in DictsOver(IndexKeys, {Pickle, Memory}) : Len(d) <= MaxCatalog}

Node1 == [inputs |-> {<<"x">>}, outputs |-> {<<"y">>}, namespace |-> None]
Node2 == [inputs |-> {<<"y">>}, outputs |-> {<<"z">>}, namespace |-> None]
Node3 == [inputs |-> {<<"n", ".", "z">>}, outputs |-> {<<"x">>},
          namespace |-> <<"n">>]

IndexPipelines == {<<>>, <<Node1, Node2>>, <<Node3>>, <<Node2, Node3>>}

PipelineNames == {<<"p", "1">>, <<"p", "2">>}

Registries == DictsOver(PipelineNames, IndexPipelines)

IndexInit ==
    /\ arg \in [catalog : IndexCatalogs, registry : Registries]
    /\ pc = "init"
    /\ ret = None
    /\ HooksConstructed

ApplyGetDatasetsByPipeline ==
    /\ pc = "init"
    /\ ret' = get_datasets_by_pipeline(arg.catalog, arg.registry)
    /\ pc' = "index"
    /\ UNCHANGED <<arg, hookVars, cliVars, nEvents>>

\* The report of the index just computed and of the catalog's datasets,
\* classified with or without the in-memory type (rich_cli.py:197-199,
\* tests/utilities/test_catalog_utils.py:95-104).
ApplyReportDatasetsAsList ==
    /\ pc = "index"
    /\ ret.raised = "none"
    /\ \E exclude_types \in {{}, {Memory}} :
          LET catalog_datasets ==
                  get_catalog_datasets(arg.catalog, exclude_types, TRUE)
          IN  ret' = [raised |-> "none",
                      pipeline_datasets |-> ret.value,
                      catalog_datasets |-> catalog_datasets,
                      value |-> report_datasets_as_list(ret.value, catalog_datasets)]
    /\ pc' = "report"
    /\ UNCHANGED <<arg, hookVars, cliVars, nEvents>>

IndexNext == ApplyGetDatasetsByPipeline \/ ApplyReportDatasetsAsList

SpecIndex == IndexInit /\ [][IndexNext]_vars

\* Position of a pipeline name in the registry's iteration order.
RegistryPosition(registry, name) ==
    CHOOSE i \in DOMAIN registry : registry[i][1] = name

-----------------------------------------------------------------------------
(* C7 *)

\* C7 as stated: the pipeline names attached to every key of the index are
\* in ascending lexical order, whatever the registry's iteration order.
C7_PipelinesAscending ==
    (pc = "index" /\ ret.raised = "none") =>
        \A e \in DOMAIN ret.value :
            \A i, j \in DOMAIN ret.value[e][2] :
                i < j => StrLess(ret.value[e][2][i], ret.value[e][2][j])

\* C7 amended: the pipeline names attached to every key of the index are
\* distinct keys of the registry, in the registry's iteration order.
C7_PipelinesInRegistryOrder ==
    (pc = "index" /\ ret.raised = "none") =>
        \A e \in DOMAIN ret.value :
            /\ \A i \in DOMAIN ret.value[e][2] :
                    ret.value[e][2][i] \in DictKeys(arg.registry)
            /\ \A i, j \in DOMAIN ret.value[e][2] :
                    i < j => RegistryPosition(arg.registry, ret.value[e][2][i])
                                < RegistryPosition(arg.registry, ret.value[e][2][j])

\* A registry iterating p2 before p1, both pipelines referencing a dataset:
\* the dataset's list is [p2, p1].
C7_Witness ==
    /\ pc = "index"
    /\ ret.raised = "none"
    /\ \E e \in DOMAIN ret.value : ret.value[e][2] = <<<<"p", "2">>, <<"p", "1">>>>

-----------------------------------------------------------------------------
(* C10 *)

\* Number of positions of seq that hold x.
CountOf(seq, x) == Cardinality({i \in DOMAIN seq : seq[i] = x})

\* The record C10 expects for one entry of the persisted mapping.
C10_Expected(index, kv) ==
    LET split == split_catalog_namespace_key(resolve_catalog_namespace(kv[1]))
        at    == {i \in DOMAIN index : index[i][1] = kv[1]}
    IN  [dataset_type |-> kv[2],
         pipelines    |-> IF at = {} THEN <<>> ELSE index[CHOOSE i \in at : TRUE][2],
         namespace    |-> split[1],
         key          |-> split[2]]

\* C10: the report holds exactly one record per entry of the persisted
\* mapping, with the entry's type, the namespace and key split from the
\* dotted form of the catalog key, and the pipelines the index gives for the
\* catalog key ([] when absent); for the catalog {x: Pickle, y: Memory,
\* z: Pickle} with one pipeline node1(x->y), node2(y->z) the report of the
\* persisted (non-memory) datasets is the two records of x and z, each
\* listing that pipeline.
C10_ReportRecords ==
    pc = "report" =>
        /\ Len(ret.value) = Len(ret.catalog_datasets)
        /\ \A i \in DOMAIN ret.catalog_datasets :
              LET r == C10_Expected(ret.pipeline_datasets, ret.catalog_datasets[i])
              IN  CountOf(ret.value, r) =
                    Cardinality({j \in DOMAIN ret.catalog_datasets :
                        C10_Expected(ret.pipeline_datasets, ret.catalog_datasets[j]) = r})
        /\ ( /\ arg.catalog = <<<<<<"x">>, Pickle>>, <<<<"y">>, Memory>>,
                                <<<<"z">>, Pickle>>>>
             /\ arg.registry = <<<<<<"p", "1">>, <<Node1, Node2>>>>>>
             /\ DictValues(ret.catalog_datasets) = {Pickle} )
            => ret.value =
                 <<[dataset_type |-> Pickle, pipelines |-> <<<<"p", "1">>>>,
                    namespace |-> None, key |-> <<"x">>],
                   [dataset_type |-> Pickle, pipelines |-> <<<<"p", "1">>>>,
                    namespace |-> None, key |-> <<"z">>]>>

\* The report of the example catalog and pipeline has been built.
C10_Witness ==
    /\ pc = "report"
    /\ arg.catalog = <<<<<<"x">>, Pickle>>, <<<<"y">>, Memory>>, <<<<"z">>, Pickle>>>>
    /\ arg.registry = <<<<<<"p", "1">>, <<Node1, Node2>>>>>>
    /\ DictValues(ret.catalog_datasets) = {Pickle}
    /\ Len(ret.value) = 2

-----------------------------------------------------------------------------
(* C8 *)

\* C8 as stated: for every name that contains no literal "__" (a single '_'
\* next to a '.' allowed), flattening the name and converting the flat key
\* back gives the name again.
C8_RoundTripNoSep ==
    (pc = "dotted" /\ ~Contains(arg, Sep)) => ret = arg

\* C8 amended: the round trip holds for every name that contains neither
\* "__" nor a '_' immediately followed by a '.'.
C8_RoundTripAmended ==
    (pc = "dotted" /\ ~Contains(arg, Sep) /\ ~Contains(arg, <<"_", ".">>))
        => ret = arg

\* A name with a '.' immediately followed by '_' has made the round trip.
C8_Witness ==
    /\ pc = "dotted"
    /\ Contains(arg, <<".", "_">>)
    /\ ~Contains(arg, Sep)
    /\ ~Contains(arg, <<"_", ".">>)
    /\ ret = arg

-----------------------------------------------------------------------------
(* C11 *)

\* The keys of the datasets the i-th pipeline of the registry reads or
\* writes: the inputs and outputs the filter keeps of the classified catalog.
PipelineMembers(catalog, registry, i) ==
    LET scope == filter_datasets_by_pipeline(
                     get_catalog_datasets(catalog, {}, TRUE), registry[i][2])
    IN  DictKeys(scope[1]) \cup DictKeys(scope[2])

\* The names of the pipelines of the registry that read or write key k.
PipelinesOf(catalog, registry, k) ==
    {registry[i][1] : i \in {j \in DOMAIN registry :
                                k \in PipelineMembers(catalog, registry, j)}}

\* C11: the index maps each dataset key to exactly the pipelines whose
\* inputs or outputs contain it, each pipeline name once; a key is listed
\* once; a dataset of no pipeline is absent (never present with an empty
\* list); every pipeline name in the index is a key of the registry.
C11_IndexInvertsScopes ==
    (pc = "index" /\ ret.raised = "none") =>
        /\ \A e \in DOMAIN ret.value :
              LET k     == ret.value[e][1]
                  names == ret.value[e][2]
              IN  /\ {names[i] : i \in DOMAIN names}
                        = PipelinesOf(arg.catalog, arg.registry, k)
                  /\ \A i, j \in DOMAIN names : names[i] = names[j] => i = j
                  /\ names # <<>>
                  /\ \A i \in DOMAIN names : names[i] \in DictKeys(arg.registry)
        /\ \A e, f \in DOMAIN ret.value :
              ret.value[e][1] = ret.value[f][1] => e = f
        /\ \A k \in IndexKeys :
              PipelinesOf(arg.catalog, arg.registry, k) # {}
                  => k \in DictKeys(ret.value)

\* An index computed for a catalog with one dataset that two pipelines
\* share and one dataset that no pipeline touches.
C11_Witness ==
    /\ pc = "index"
    /\ ret.raised = "none"
    /\ \E e \in DOMAIN ret.value : Len(ret.value[e][2]) = 2
    /\ \E k \in DictKeys(arg.catalog) : k \notin DictKeys(ret.value)

-----------------------------------------------------------------------------
(* Specification of the classifier: a catalog with ordinary and parameter  *)
(* entries, a set of excluded type names and the drop_params flag are      *)
(* drawn, and the catalog is classified.                                   *)

\* "x", "parameters", "params__x" and "param" (no parameter entry: it does
\* not start with "params")
ClassifyKeys ==
    {<<"x">>, Parameters, Params \o <<"_", "_", "x">>,
     <<"p", "a", "r", "a", "m">>}

ClassifyCatalogs ==
    {d \in DictsOver(ClassifyKeys, {Pickle, Memory}) : Len(d) <= MaxCatalog}

ClassifyInit ==
    /\ arg \in [catalog : ClassifyCatalogs,
                exclude_types : SUBSET {Pickle, Memory},
                drop_params : BOOLEAN]
    /\ pc = "init"
    /\ ret = None
    /\ HooksConstructed

ApplyGetCatalogDatasets ==
    /\ pc = "init"
    /\ ret' = get_catalog_datasets(arg.catalog, arg.exclude_types, arg.drop_params)
    /\ pc' = "classified"
    /\ UNCHANGED <<arg, hookVars, cliVars, nEvents>>

ClassifyNext == ApplyGetCatalogDatasets

SpecClassify == ClassifyInit /\ [][ClassifyNext]_vars

-----------------------------------------------------------------------------
(* C12 *)

\* The entries of the catalog C12 says are kept.
C12_Kept ==
    {arg.catalog[i] : i \in {j \in DOMAIN arg.catalog :
        /\ arg.catalog[j][2] \notin arg.exclude_types
        /\ arg.drop_params =>
              /\ arg.catalog[j][1] # Parameters
              /\ ~( /\ Len(arg.catalog[j][1]) >= Len(Params)
                    /\ \A c \in DOMAIN Params :
                          arg.catalog[j][1][c] = Params[c] )}}

\* C12: the classifier returns exactly the key -> type name entries of the
\* catalog whose type name is not excluded and, when drop_params is true,
\* whose key is neither "parameters" nor starts with "params"; with the
\* default arguments (nothing excluded, drop_params false) every entry is
\* kept; an empty catalog gives an empty result.
C12_ClassifierKeeps ==
    pc = "classified" =>
        /\ {ret[i] : i \in DOMAIN ret} = C12_Kept
        /\ \A i, j \in DOMAIN ret : ret[i][1] = ret[j][1] => i = j
        /\ (arg.exclude_types = {} /\ ~arg.drop_params) => ret = arg.catalog
        /\ arg.catalog = <<>> => ret = <<>>

\* A catalog with an in-memory "parameters" entry, a "params__x" entry and
\* an ordinary entry classified with the default arguments.
C12_Witness ==
    /\ pc = "classified"
    /\ arg.exclude_types = {}
    /\ ~arg.drop_params
    /\ {Parameters, Params \o <<"_", "_", "x">>, <<"x">>} \subseteq DictKeys(ret)
    /\ Memory \in DictValues(ret)

-----------------------------------------------------------------------------
(* Specification of the namespace split: a dotted name is drawn and split. *)

SplitInit ==
    /\ arg \in StringsUpTo(MaxNameLen)
    /\ pc = "init"
    /\ ret = None
    /\ HooksConstructed

ApplySplitCatalogNamespaceKey ==
    /\ pc = "init"
    /\ ret' = split_catalog_namespace_key(arg)
    /\ pc' = "split"
    /\ UNCHANGED <<arg, hookVars, cliVars, nEvents>>

SplitNext == ApplySplitCatalogNamespaceKey

SpecSplit == SplitInit /\ [][SplitNext]_vars

-----------------------------------------------------------------------------
(* C13 *)

\* Position of the last '.' of a name that has one.
LastDot(s) ==
    CHOOSE i \in DOMAIN s : s[i] = "." /\ \A j \in (i + 1)..Len(s) : s[j] # "."

\* C13: for every name with at least one '.', the namespace is everything
\* before the last '.' and the bare key everything after it, also when the
\* part before the last '.' is empty; for a name with no '.', the result is
\* (None, name).
C13_SplitsOnLastDot ==
    pc = "split" =>
        IF \E i \in DOMAIN arg : arg[i] = "."
        THEN ret = <<SubSeq(arg, 1, LastDot(arg) - 1),
                     SubSeq(arg, LastDot(arg) + 1, Len(arg))>>
        ELSE ret = <<None, arg>>

-----------------------------------------------------------------------------
(* C14 *)

\* Position, in the persisted dataset mapping, of the entry a record of the
\* report was made from.
C14_SourcePosition(r) ==
    CHOOSE p \in DOMAIN ret.catalog_datasets :
        report_record(ret.pipeline_datasets, ret.catalog_datasets[p]) = r

\* C14: the report is sorted by dataset_type ascending, and two records of
\* the same dataset_type are in the order in which their keys are iterated
\* in the persisted dataset mapping; a mapping with types [P, M, M] gives a
\* report with types [M, M, P], the two M records in their input order.
C14_ReportSortedStable ==
    pc = "report" =>
        /\ \A i, j \in DOMAIN ret.value :
              i < j => StrLeq(ret.value[i].dataset_type, ret.value[j].dataset_type)
        /\ \A i, j \in DOMAIN ret.value :
              (i < j /\ ret.value[i].dataset_type = ret.value[j].dataset_type)
                  => C14_SourcePosition(ret.value[i])
                        < C14_SourcePosition(ret.value[j])
        /\ [i \in DOMAIN ret.catalog_datasets |-> ret.catalog_datasets[i][2]]
                = <<Pickle, Memory, Memory>>
            => ret.value =
                 <<report_record(ret.pipeline_datasets, ret.catalog_datasets[2]),
                   report_record(ret.pipeline_datasets, ret.catalog_datasets[3]),
                   report_record(ret.pipeline_datasets, ret.catalog_datasets[1])>>

\* The report of a mapping whose types are iterated as [P, M, M].
C14_Witness ==
    /\ pc = "report"
    /\ [i \in DOMAIN ret.catalog_datasets |-> ret.catalog_datasets[i][2]]
            = <<Pickle, Memory, Memory>>
    /\ [i \in DOMAIN ret.value |-> ret.value[i].dataset_type]
            = <<Memory, Memory, Pickle>>

-----------------------------------------------------------------------------
(* C15 *)

\* The catalog keys of non-MemoryDataSet entries that are resolved names of
\* the pipeline's port (the exact-match scope).
C15_Scope(pipeline, catalog, port) ==
    {catalog[i][1] : i \in {j \in DOMAIN catalog :
        /\ catalog[j][2] # Memory
        /\ catalog[j][1] \in ResolvedNames(pipeline, port)}}

\* C15: before_pipeline_run with the flag set leaves overallTotal = number
\* of nodes of the pipeline, loadTotal = |scope.inputs|, saveTotal =
\* |scope.outputs| (the exact-match scope over the non-MemoryDataSet catalog
\* entries), the three counters 0 and the three activities "".
\* (A step of before_pipeline_run(pipeline, catalog) with the flag set moves
\* the command as the handler does and stores the pipeline's node count and
\* the catalog's persisted entries: the steps and the arguments that do not
\* fit are set aside by these cheap tests before the handler is evaluated.)
C15_RunStartInitialises ==
    [][( /\ envFlag
         /\ cliPc \in {"idle", "session"}
         /\ cliPc' = IF cliPc = "session" THEN "running" ELSE cliPc ) =>
        \A pipeline \in RunPipelines, catalog \in RunCatalogs :
          ( /\ task_count' = Len(pipeline)
            /\ io_datasets_in_catalog' = get_persisted_datasets(catalog)
            /\ before_pipeline_run(pipeline, catalog) ) =>
              /\ tasks'["overall"].total = Len(pipeline)
              /\ tasks'["loads"].total
                    = Cardinality(C15_Scope(pipeline, catalog, "inputs"))
              /\ tasks'["saves"].total
                    = Cardinality(C15_Scope(pipeline, catalog, "outputs"))
              /\ \A t \in TaskNames :
                    /\ tasks'[t].completed = 0
                    /\ tasks'[t].activity = NoActivity]_vars

\* A run of two nodes has just started with the flag set, the catalog's one
\* persisted dataset being in its input scope and in its output scope.
C15_Witness ==
    /\ Running
    /\ task_count = 2
    /\ tasks["overall"].total = 2
    /\ tasks["loads"].total = 1
    /\ tasks["saves"].total = 1
    /\ Len(io_datasets_in_catalog) = 1
    /\ \A t \in TaskNames : tasks[t].completed = 0 /\ tasks[t].activity = NoActivity

-----------------------------------------------------------------------------
(* C16 *)

\* C16: overallDone is 0 when a run starts and only node-finished events
\* change it, so after c node-finished events delivered in state Running it
\* is min(N, c), N = overallTotal, exactly when every such event takes it
\* from d to min(N, d + 1); and no event of the run decreases it.
C16_OverallDoneIsMinOfTotalAndCalls ==
    [][/\ (Running /\ after_node_run) =>
            tasks'["overall"].completed =
                IF tasks["overall"].completed + 1 <= tasks["overall"].total
                THEN tasks["overall"].completed + 1
                ELSE tasks["overall"].total
       /\ (Running /\ (AfterNodeRun \/ BeforeNodeRun \/ AfterDatasetLoaded
                        \/ AfterDatasetSaved)) =>
            tasks'["overall"].completed >= tasks["overall"].completed]_vars

-----------------------------------------------------------------------------
(* C17 *)

\* C17: in every reachable Running state, dataset-loaded(name) for a name
\* that is not a member of scope.inputs (the keys of pipeline_inputs) leaves
\* loadDone and the two other counters unchanged.
C17_OutOfScopeLoadIgnored ==
    [][\A n \in EventNames :
          ( /\ Running
            /\ n \notin DictKeys(pipeline_inputs)
            /\ after_dataset_loaded(n) ) => Done(tasks') = Done(tasks)]_vars

\* The command has started a run with the flag set and a non-empty input
\* scope, and the one event delivered since (a dataset event for a name out
\* of scope: the stranger "u", or the dotted name of a dataset whose flat
\* key is in the scope) has advanced no counter.
C17_Witness ==
    /\ Running
    /\ cliPc = "running"
    /\ nEvents = 3
    /\ pipeline_inputs # <<>>
    /\ \A t \in TaskNames : tasks[t].completed = 0 /\ tasks[t].activity = NoActivity

-----------------------------------------------------------------------------
(* Specification of the scope of pipelines with a namespace "ns": the      *)
(* nodes read a or b and write b, c or the dotted ns.c; the persisted      *)
(* mapping holds any of the keys a, b, c and ns__c.                        *)

Ns == <<"n", "s">>

NsDotC == <<"n", "s", ".", "c">>

NsSepC == <<"n", "s", "_", "_", "c">>

NsScopeKeys == {<<"a">>, <<"b">>, <<"c">>, NsSepC}

NsNodePool ==
    [inputs : {{<<"a">>}, {<<"b">>}},
     outputs : {{<<"b">>}, {<<"c">>}, {NsDotC}},
     namespace : {None, Ns}]

\* The persisted mappings: the subsets of the keys, each in one order.
NsDatasets ==
    {[i \in DOMAIN SetToSeq(ks) |-> <<SetToSeq(ks)[i], Pickle>>] :
        ks \in SUBSET NsScopeKeys}

NsScopeInit ==
    /\ arg \in [datasets : NsDatasets,
                 pipeline : SeqsOfDistinct(NsNodePool, MaxNodes)]
    /\ pc = "init"
    /\ ret = None
    /\ HooksConstructed

SpecScopeNs == NsScopeInit /\ [][ScopeNext]_vars

-----------------------------------------------------------------------------
(* C18 *)

\* The nodes of the example: one without namespace reading a and writing b,
\* one in namespace ns reading b and writing c; and the second node with its
\* output declared under its dotted name ns.c.
C18_Plain == [inputs |-> {<<"a">>}, outputs |-> {<<"b">>}, namespace |-> None]

C18_InNs == [inputs |-> {<<"b">>}, outputs |-> {<<"c">>}, namespace |-> Ns]

C18_InNsDotted == [inputs |-> {<<"b">>}, outputs |-> {NsDotC}, namespace |-> Ns]

\* C18 as stated: for the pipeline of the two nodes (a -> b without
\* namespace, b -> c in namespace ns) and a persisted mapping that holds the
\* keys a, b and ns__c, the scope is inputs {a, b} and outputs {b, ns__c}.
C18_ScopeHasPrefixedKey ==
    ( /\ pc = "hooks_scope"
      /\ arg.pipeline \in {<<C18_Plain, C18_InNs>>, <<C18_InNs, C18_Plain>>}
      /\ {<<"a">>, <<"b">>, NsSepC} \subseteq DictKeys(arg.datasets) )
        => /\ DictKeys(ret[1]) = {<<"a">>, <<"b">>}
           /\ DictKeys(ret[2]) = {<<"b">>, NsSepC}

\* C18 amended: for that pipeline and a persisted mapping that holds a, b
\* and ns__c, the scope is inputs {a, b} and outputs {b}, with c when c is
\* persisted, and never ns__c (the names of a namespaced node have their
\* '.' replaced, the namespace is not put in front of them); when the
\* namespaced node declares its output as ns.c, the scope is inputs {a, b}
\* and outputs {b, ns__c}.
C18_ScopeOfExample ==
    ( /\ pc = "hooks_scope"
      /\ {<<"a">>, <<"b">>, NsSepC} \subseteq DictKeys(arg.datasets) )
        => /\ arg.pipeline \in {<<C18_Plain, C18_InNs>>, <<C18_InNs, C18_Plain>>}
              => /\ DictKeys(ret[1]) = {<<"a">>, <<"b">>}
                 /\ DictKeys(ret[2])
                        = {<<"b">>} \cup ({<<"c">>} \cap DictKeys(arg.datasets))
           /\ arg.pipeline \in {<<C18_Plain, C18_InNsDotted>>,
                                <<C18_InNsDotted, C18_Plain>>}
              => /\ DictKeys(ret[1]) = {<<"a">>, <<"b">>}
                 /\ DictKeys(ret[2]) = {<<"b">>, NsSepC}

\* The scope of the example pipeline has been computed in a mapping that
\* holds a, b, c and ns__c: its outputs are b and c.
C18_Witness ==
    /\ pc = "hooks_scope"
    /\ arg.pipeline = <<C18_Plain, C18_InNs>>
    /\ DictKeys(arg.datasets) = NsScopeKeys
    /\ DictKeys(ret[1]) = {<<"a">>, <<"b">>}
    /\ DictKeys(ret[2]) = {<<"b">>, <<"c">>}

-----------------------------------------------------------------------------
(* C19 *)

\* A name with each '.' replaced by "__", character by character.
RECURSIVE C19_EveryDotReplaced(_)
C19_EveryDotReplaced(s) ==
    IF s = <<>> THEN <<>>
    ELSE (IF Head(s) = "." THEN <<"_", "_">> ELSE <<Head(s)>>)
            \o C19_EveryDotReplaced(Tail(s))

\* C19: resolve_pipeline_namespace returns its argument with every '.'
\* replaced by "__" and nothing else changed; the result contains no '.'; a
\* name with no '.' is returned unchanged; applying the function to the
\* result gives the result again.
C19_FlatKey ==
    pc = "flat" =>
        /\ ret = C19_EveryDotReplaced(arg)
        /\ \A i \in DOMAIN ret : ret[i] # "."
        /\ (\A i \in DOMAIN arg : arg[i] # ".") => ret = arg
        /\ resolve_pipeline_namespace(ret) = ret

\* A name with two dots, a letter and an underscore has been flattened.
C19_Witness ==
    /\ pc = "flat"
    /\ Cardinality({i \in DOMAIN arg : arg[i] = "."}) = 2
    /\ \E i \in DOMAIN arg : arg[i] = "a"
    /\ \E i \in DOMAIN arg : arg[i] = "_"
    /\ Len(ret) = Len(arg) + 2

-----------------------------------------------------------------------------
(* Specification of the catalog-key resolver: a key is drawn and converted *)
(* to its dotted form.                                                     *)

ApplyResolveCatalogNamespaceToKey ==
    /\ pc = "init"
    /\ ret' = resolve_catalog_namespace(arg)
    /\ pc' = "key_dotted"
    /\ UNCHANGED <<arg, hookVars, cliVars, nEvents>>

CatalogKeyNext == ApplyResolveCatalogNamespaceToKey

SpecCatalogKey == ResolverInit /\ [][CatalogKeyNext]_vars

-----------------------------------------------------------------------------
(* C20 *)

\* A key read from left to right, each "__" met replaced by '.', the
\* reading resumed behind it.
RECURSIVE C20_EverySepReplaced(_)
C20_EverySepReplaced(s) ==
    IF Len(s) < 2 THEN s
    ELSE IF s[1] = "_" /\ s[2] = "_"
         THEN <<".">> \o C20_EverySepReplaced(SubSeq(s, 3, Len(s)))
         ELSE <<s[1]>> \o C20_EverySepReplaced(Tail(s))

\* C20: resolve_catalog_namespace returns its argument with every
\* left-to-right, non-overlapping occurrence of "__" replaced by '.' and
\* nothing else changed; the result contains no "__" (none is ever produced
\* across a replacement boundary either: a '.' stands there); a key with no
\* "__" is returned unchanged, its single underscores included.
C20_DottedName ==
    pc = "key_dotted" =>
        /\ ret = C20_EverySepReplaced(arg)
        /\ \A i \in 1..(Len(ret) - 1) : ~(ret[i] = "_" /\ ret[i + 1] = "_")
        /\ (\A i \in 1..(Len(arg) - 1) : ~(arg[i] = "_" /\ arg[i + 1] = "_"))
              => ret = arg

\* A key of three underscores and a letter has been converted: the first
\* two underscores have become a '.', the third is kept.
C20_Witness ==
    /\ pc = "key_dotted"
    /\ arg = <<"_", "_", "_", "a">>
    /\ ret = <<".", "_", "a">>

-----------------------------------------------------------------------------
(* The table of the catalog report, utilities/formatting_utils.py (and its *)
(* copy in rich_cli.py)                                                    *)

KEDRO_RICH_CATALOG_LIST_THRESHOLD == 10

\* The column headers and the markup of the cells
HeaderNamespace == <<"n", "a", "m", "e", "s", "p", "a", "c", "e">>
HeaderDatasetName == <<"d", "a", "t", "a", "s", "e", "t", "_", "n", "a", "m", "e">>
HeaderDatasetType == <<"d", "a", "t", "a", "s", "e", "t", "_", "t", "y", "p", "e">>
HeaderPipelineCount ==
    <<"p", "i", "p", "e", "l", "i", "n", "e", "_", "c", "o", "u", "n", "t">>
NamespaceNotApplicable == <<"[bright_black]n/a[/]">>
CheckMark == <<"[bold green]", "tick", "[/]">>
CrossMark == <<"[bold red]", "cross", "[/]">>

\* str(n) for a natural number
RECURSIVE IntToStr(_)
IntToStr(n) ==
    LET digit(d) == <<"0", "1", "2", "3", "4", "5", "6", "7", "8", "9">>[d + 1]
    IN  IF n < 10 THEN <<digit(n)>>
        ELSE IntToStr(n \div 10) \o <<digit(n % 10)>>

\* list(pipes.keys())
list_keys(pipes) == [i \in DOMAIN pipes |-> pipes[i][1]]

\* sorted(pipes.keys())
sorted_keys(pipes) ==
    LET wrapped == SortedBy(1, [i \in DOMAIN pipes |-> <<pipes[i][1]>>])
    IN  [i \in DOMAIN wrapped |-> wrapped[i][1]]

\* _describe_boundary, index counted from 1
describe_boundary(index, records, key, current_value) ==
    LET same_section ==
            index + 1 <= Len(records) /\ records[index + 1][key] = current_value
        new_section ==
            index = 1 \/ records[index - 1][key] # current_value
    IN  <<same_section, new_section>>

\* _check_cross
check_cross(overlap) == IF overlap THEN CheckMark ELSE CrossMark

\* The row prepare_rich_table adds for records[index].
table_row(index, records, pipes) ==
    LET row == records[index]
        includes_namespaces == \E i \in DOMAIN records : Truthy(records[i].namespace)
        collapse_pipes == Len(pipes) > KEDRO_RICH_CATALOG_LIST_THRESHOLD
        boundary == describe_boundary(index, records, "dataset_type", row.dataset_type)
        table_namespace ==
            IF includes_namespaces
            THEN IF Truthy(row.namespace) THEN <<row.namespace>>
                 ELSE <<NamespaceNotApplicable>>
            ELSE <<>>
        table_dataset_name == <<row.key>>
        table_dataset_type ==
            IF boundary[2]
            THEN <<<<"[magenta][b]">> \o row.dataset_type \o <<"[/][/]">>>>
            ELSE <<<<>>>>
        dataset_pipes == row.pipelines
        proj_pipes == sorted_keys(pipes)
        table_pipes ==
            IF collapse_pipes
            THEN <<IntToStr(Len(dataset_pipes))>>
            ELSE [i \in DOMAIN proj_pipes |->
                    check_cross(proj_pipes[i] \in
                        ({proj_pipes[j] : j \in DOMAIN proj_pipes}
                            \cap {dataset_pipes[j] : j \in DOMAIN dataset_pipes}))]
    IN  [cells |-> table_namespace \o table_dataset_name
                        \o table_dataset_type \o table_pipes,
         end_section |-> ~boundary[1]]

\* A table whose pipelines are collapsed to a count from the threshold on.
prepare_rich_table_collapse_at_threshold(records, pipes) ==
    LET includes_namespaces == \E i \in DOMAIN records : Truthy(records[i].namespace)
        collapse_pipes == Len(pipes) >= KEDRO_RICH_CATALOG_LIST_THRESHOLD
    IN  [columns |-> (IF includes_namespaces THEN <<HeaderNamespace>> ELSE <<>>)
                        \o <<HeaderDatasetName, HeaderDatasetType>>
                        \o (IF collapse_pipes THEN <<HeaderPipelineCount>>
                            ELSE list_keys(pipes)),
         rows |-> [index \in DOMAIN records |-> table_row(index, records, pipes)]]

\* prepare_rich_table: the table's column headers and its rows
prepare_rich_table(records, pipes) ==
    LET includes_namespaces == \E i \in DOMAIN records : Truthy(records[i].namespace)
        collapse_pipes == Len(pipes) > KEDRO_RICH_CATALOG_LIST_THRESHOLD
        namespace_columns == IF includes_namespaces THEN <<HeaderNamespace>> ELSE <<>>
        pipe_columns ==
            IF collapse_pipes THEN <<HeaderPipelineCount>> ELSE list_keys(pipes)
        columns_to_add ==
            namespace_columns \o <<HeaderDatasetName, HeaderDatasetType>> \o pipe_columns
    IN  [columns |-> columns_to_add,
         rows |-> [index \in DOMAIN records |-> table_row(index, records, pipes)]]

-----------------------------------------------------------------------------
(* Specification of the table: a registry and the records of a report are  *)
(* drawn and the table is built.                                           *)

\* "de", "ds" and "_d": registries of these are drawn in every order
TableSmallNames == {<<"d", "e">>, <<"d", "s">>, <<"_", "d">>}

\* The names of the larger registries, which are drawn in this order only
TableNames ==
    <<"a", "b", "c", "d", "e", "m", "n", "p", "q", "r", "s", "t", "u">>

\* Pipeline([]) of tests/utilities/test_formatting_utils.py
EmptyPipeline == <<>>

TableRegistries ==
    DictsOver(TableSmallNames, {EmptyPipeline})
        \cup {[i \in 1..k |-> <<<<TableNames[i]>>, EmptyPipeline>>] : k \in 0..MaxRegistry}

\* The pipelines lists of the records of a registry: none, the first, all.
TablePipelineLists(pipes) ==
    {<<>>, list_keys(pipes)}
        \cup (IF pipes = <<>> THEN {} ELSE {<<pipes[1][1]>>})

\* The records a report can hold for a registry: the entry "x" of the
\* catalog, without a namespace or in one of two.
TableRecordPool(pipes) ==
    [dataset_type : {Memory, Pickle},
     pipelines : TablePipelineLists(pipes),
     namespace : {None, <<"n">>, <<"m">>},
     key : {<<"x">>}]

\* The reports: records of distinct datasets, sorted by dataset_type.
TableReports(pipes) ==
    {r \in SeqsOfDistinct(TableRecordPool(pipes), MaxRows) :
        /\ \A i, j \in DOMAIN r : i # j => r[i].namespace # r[j].namespace
        /\ \A i, j \in DOMAIN r : i < j => StrLeq(r[i].dataset_type, r[j].dataset_type)}

TableInit ==
    /\ \E pipes \in TableRegistries :
          arg \in [records : TableReports(pipes), pipes : {pipes}]
    /\ pc = "init"
    /\ ret = None
    /\ HooksConstructed

ApplyPrepareRichTable ==
    /\ pc = "init"
    /\ ret' = prepare_rich_table(arg.records, arg.pipes)
    /\ pc' = "table"
    /\ UNCHANGED <<arg, hookVars, cliVars, nEvents>>

TableNext == ApplyPrepareRichTable

SpecTable == TableInit /\ [][TableNext]_vars

-----------------------------------------------------------------------------
(* C21 *)

\* C21: the table has one row per record and N + 2 + P columns, N being 1
\* if some record has a namespace and 0 otherwise, P being 1 (the single
\* pipeline_count column) if and only if the registry has more than
\* KEDRO_RICH_CATALOG_LIST_THRESHOLD = 10 pipelines, and the number of
\* registered pipelines otherwise.
C21_TableShape ==
    pc = "table" =>
        LET N == IF \E i \in DOMAIN arg.records : arg.records[i].namespace # None
                 THEN 1 ELSE 0
            P == IF Len(arg.pipes) > 10 THEN 1 ELSE Len(arg.pipes)
        IN  /\ Len(ret.rows) = Len(arg.records)
            /\ Len(ret.columns) = N + 2 + P
            /\ Len(arg.pipes) > 10
                  <=> ret.columns[Len(ret.columns)] = HeaderPipelineCount

\* The table of a registry of exactly 10 pipelines has been built for a
\* report with a namespaced record: it is not collapsed.
C21_Witness ==
    /\ pc = "table"
    /\ Len(arg.pipes) = 10
    /\ \E i \in DOMAIN arg.records : arg.records[i].namespace # None
    /\ Len(arg.records) = 2
    /\ Len(ret.columns) = 13
    /\ Len(ret.rows) = 2

-----------------------------------------------------------------------------
(* Specification of a long run: the process is taken up in the middle of a *)
(* run the command started with the flag set, after the host has reported  *)
(* a number of loads and saves of the dataset in scope (each report of a   *)
(* dataset in scope adds 1 to its counter, and a dataset is loaded once    *)
(* for every node that reads it); the events then go on as in Spec.        *)

LongRunPipeline == <<NodeC>>

LongRunCatalog == <<<<<<"a">>, Pickle>>>>

\* The numbers of loads and of saves reported so far: none, or one more
\* than the value after_pipeline_run gives the counters
LongRunCounts == {0, CompletedOnFinish + 1}

LongRunInit ==
    /\ arg = None
    /\ pc = "init"
    /\ ret = None
    /\ \E loads \in LongRunCounts, saves \in LongRunCounts :
          LET io    == get_persisted_datasets(LongRunCatalog)
              scope == get_persisted_datasets_in_scope(io, LongRunPipeline)
          IN  /\ progress = TRUE
              /\ task_count = Len(LongRunPipeline)
              /\ io_datasets_in_catalog = io
              /\ pipeline_inputs = scope[1]
              /\ pipeline_outputs = scope[2]
              /\ tasks =
                    [t \in TaskNames |->
                        CASE t = "overall" -> add_progress_task(Len(LongRunPipeline))
                          [] t = "loads"   ->
                                [add_progress_task(Len(scope[1]))
                                    EXCEPT !.completed = loads]
                          [] t = "saves"   ->
                                [add_progress_task(Len(scope[2]))
                                    EXCEPT !.completed = saves]]
    /\ raised = "none"
    /\ run = [phase |-> "running", enabled |-> TRUE,
              inputs  |-> DeclaredNames(LongRunPipeline, "inputs"),
              outputs |-> DeclaredNames(LongRunPipeline, "outputs")]
    /\ envFlag = TRUE
    /\ cliPc = "running"
    /\ cliRunner = "SequentialRunner"
    /\ nEvents = 0

SpecLongRun == LongRunInit /\ [][Next]_vars

-----------------------------------------------------------------------------
(* C22 *)

\* C22: within one run none of overallDone, loadDone and saveDone decreases
\* in a step of a lifecycle event, from the run's start to its run-finished
\* handler (which sets the load and save counters to a fixed value)
\* included.
C22_CountersNeverDecrease ==
    [][(Running /\ (AfterDatasetLoaded \/ AfterDatasetSaved \/ BeforeNodeRun
                     \/ AfterNodeRun \/ AfterPipelineRun)) =>
          \A t \in TaskNames : tasks'[t].completed >= tasks[t].completed]_vars

-----------------------------------------------------------------------------
(* C23 *)

\* C23: in every state after a run start, every key of pipeline_inputs and
\* of pipeline_outputs is a key of io_datasets_in_catalog, with the same
\* type, so the type lookup of after_dataset_saved raises for no name that
\* has passed its scope test.
C23_ScopeWithinClassified ==
    run.phase # "none" =>
        /\ DictKeys(pipeline_inputs) \subseteq DictKeys(io_datasets_in_catalog)
        /\ DictKeys(pipeline_outputs) \subseteq DictKeys(io_datasets_in_catalog)
        /\ \A i \in DOMAIN pipeline_outputs :
              DictGet(io_datasets_in_catalog, pipeline_outputs[i][1])
                  = pipeline_outputs[i][2]
        /\ progress =>
              \A n \in EventNames :
                  DictHas(pipeline_outputs, resolve_pipeline_namespace(n))
                      => dataset_saved(n).raised = "none"

\* A save of the namespaced dataset of the output scope has been counted in
\* a run whose catalog also classifies a dataset out of the scope.
C23_Witness ==
    /\ Running
    /\ DictKeys(pipeline_outputs) = {<<"n", "_", "_", "c">>}
    /\ Len(io_datasets_in_catalog) = 2
    /\ tasks["saves"].completed = 1
    /\ raised = "none"

-----------------------------------------------------------------------------
(* C24 *)

\* C24: when a hooks object that already holds the progress state of an
\* earlier run receives a run start with the flag set, whatever the events
\* of the earlier run have left in that state, the three counters are 0,
\* the activities empty, and the node count, the classified datasets, the
\* scope and the totals are those of the new run's pipeline and catalog:
\* the handlers of the new run work on this new state only.
C24_FreshStatePerRun ==
    [][( /\ envFlag
         /\ progress
         /\ run.phase # "none"
         /\ cliPc \in {"idle", "session"}
         /\ cliPc' = IF cliPc = "session" THEN "running" ELSE cliPc ) =>
        \A pipeline \in RunPipelines, catalog \in RunCatalogs :
          ( /\ task_count' = Len(pipeline)
            /\ io_datasets_in_catalog' = get_persisted_datasets(catalog)
            /\ before_pipeline_run(pipeline, catalog) ) =>
              /\ DictKeys(pipeline_inputs') = C15_Scope(pipeline, catalog, "inputs")
              /\ DictKeys(pipeline_outputs') = C15_Scope(pipeline, catalog, "outputs")
              /\ tasks' = [t \in TaskNames |->
                    [total |-> CASE t = "overall" -> Len(pipeline)
                                 [] t = "loads"   -> Len(pipeline_inputs')
                                 [] t = "saves"   -> Len(pipeline_outputs'),
                     completed |-> 0,
                     activity |-> NoActivity]]]_vars

\* The command has been run again after a run of a one-node pipeline with
\* two events and its finish: the second run, of two nodes, has just started
\* with the flag set.
C24_Witness ==
    /\ Running
    /\ cliPc = "running"
    /\ nEvents = 6
    /\ tasks["overall"].total = 2
    /\ \A t \in TaskNames : tasks[t].completed = 0 /\ tasks[t].activity = NoActivity

-----------------------------------------------------------------------------
(* C25 *)

\* C25: in a run that started with the flag not set, no lifecycle event
\* changes a counter or an activity, also when the hooks object handled an
\* enabled run before.
C25_DisabledRunChangesNothing ==
    [][( /\ run.phase = "running"
         /\ ~run.enabled
         /\ (AfterDatasetLoaded \/ AfterDatasetSaved \/ BeforeNodeRun
               \/ AfterNodeRun \/ AfterPipelineRun) ) => tasks' = tasks]_vars

-----------------------------------------------------------------------------
(* C26 *)

\* The totals of the three tasks.
Totals(ts) == [t \in DOMAIN ts |-> ts[t].total]

\* The activities of the three tasks.
Activities(ts) == [t \in DOMAIN ts |-> ts[t].activity]

\* No total changes, nor the scope sets, the dataset type mapping or the
\* node count.
C26_Frame ==
    /\ DOMAIN tasks' = DOMAIN tasks
    /\ Totals(tasks') = Totals(tasks)
    /\ UNCHANGED <<pipeline_inputs, pipeline_outputs, io_datasets_in_catalog,
                   task_count>>

\* C26: node-started changes no counter (only the activity); node-finished
\* changes only overallDone; dataset-loaded changes at most loadDone and the
\* activity; dataset-saved changes at most saveDone and the activity; none
\* of the four changes a total, the scope sets, the dataset type mapping or
\* the node count.
C26_EventsChangeOwnPart ==
    [][/\ BeforeNodeRun =>
            /\ \A t \in DOMAIN tasks : tasks'[t].completed = tasks[t].completed
            /\ C26_Frame
       /\ AfterNodeRun =>
            /\ Activities(tasks') = Activities(tasks)
            /\ \A t \in DOMAIN tasks \ {"overall"} :
                  tasks'[t].completed = tasks[t].completed
            /\ C26_Frame
       /\ AfterDatasetLoaded =>
            /\ \A t \in DOMAIN tasks \ {"loads"} :
                  tasks'[t].completed = tasks[t].completed
            /\ C26_Frame
       /\ AfterDatasetSaved =>
            /\ \A t \in DOMAIN tasks \ {"saves"} :
                  tasks'[t].completed = tasks[t].completed
            /\ C26_Frame]_vars

\* In a run with one dataset in each scope a node has started and
\* finished: the overall task holds the node's activity and one finished
\* node, the load and save counters are 0.
C26_Witness ==
    /\ Running
    /\ tasks["overall"].activity = NodeActivity("f")
    /\ tasks["overall"].completed = 1
    /\ tasks["loads"].total = 1 /\ tasks["loads"].completed = 0
    /\ tasks["saves"].total = 1 /\ tasks["saves"].completed = 0

-----------------------------------------------------------------------------
(* C27 *)

\* C27: the index is computed without raising for every catalog and
\* registry, the empty registry included, and the mapping is empty when the
\* registry is empty or none of its pipelines reads or writes a dataset of
\* the catalog.
C27_IndexingIsTotal ==
    pc = "index" =>
        /\ ret.raised = "none"
        /\ (\A i \in DOMAIN arg.registry :
                PipelineMembers(arg.catalog, arg.registry, i) = {})
               => ret.value = <<>>

-----------------------------------------------------------------------------
(* Specification of one sequential run of the command: a pipeline and a    *)
(* catalog are drawn, and the host delivers the events of a run in which   *)
(* every node finishes once and every persisted dataset in scope is loaded  *)
(* or saved once, under the name the pipeline declares for it.             *)

\* The catalog keys of the scope (port 1: inputs, 2: outputs) that the i-th
\* node declares and no earlier node does.
HostNodeKeys(pipeline, scope, port, i) ==
    LET field == IF port = 1 THEN "inputs" ELSE "outputs"
        declares(j, k) ==
            \E n \in pipeline[j][field] : resolve_pipeline_namespace(n) = k
    IN  {k \in DictKeys(scope[port]) :
            declares(i, k) /\ \A j \in 1..(i - 1) : ~declares(j, k)}

\* The name the pipeline declares for a catalog key of the scope.
HostDeclaredName(pipeline, port, k) ==
    CHOOSE n \in DeclaredNames(pipeline, port) : resolve_pipeline_namespace(n) = k

HostEvent(kind, name) == [kind |-> kind, name |-> name]

\* The events of the i-th node: its inputs are loaded, the node runs, its
\* outputs are saved.
HostNodeEvents(pipeline, scope, i) ==
    LET loads == SetToSeq(HostNodeKeys(pipeline, scope, 1, i))
        saves == SetToSeq(HostNodeKeys(pipeline, scope, 2, i))
    IN  [l \in DOMAIN loads |->
            HostEvent("loaded", HostDeclaredName(pipeline, "inputs", loads[l]))]
        \o <<HostEvent("before_node", None), HostEvent("after_node", None)>>
        \o [s \in DOMAIN saves |->
            HostEvent("saved", HostDeclaredName(pipeline, "outputs", saves[s]))]

\* The events of the nodes from the i-th on.
RECURSIVE HostEventsFrom(_, _, _)
HostEventsFrom(pipeline, scope, i) ==
    IF i > Len(pipeline)
    THEN <<>>
    ELSE HostNodeEvents(pipeline, scope, i) \o HostEventsFrom(pipeline, scope, i + 1)

\* The command without --parallel, the run's start, the nodes in their
\* order, the run's end, the command's return.
HostSchedule(pipeline, catalog) ==
    LET scope == get_persisted_datasets_in_scope(
                     get_persisted_datasets(catalog), pipeline)
    IN  <<HostEvent("cli_run", None), HostEvent("before_pipeline", None)>>
        \o HostEventsFrom(pipeline, scope, 1)
        \o <<HostEvent("after_pipeline", None), HostEvent("cli_return", None)>>

\* The next event of the schedule is of the given kind.
HostAt(kind) ==
    LET schedule == HostSchedule(arg.pipeline, arg.catalog)
    IN  nEvents < Len(schedule) /\ schedule[nEvents + 1].kind = kind

HostNextName == HostSchedule(arg.pipeline, arg.catalog)[nEvents + 1].name

HostRunInit ==
    /\ arg \in [pipeline : RunPipelines, catalog : RunCatalogs]
    /\ pc = "init"
    /\ ret = None
    /\ HooksConstructed

HostCliRun == HostAt("cli_run") /\ cli_run(FALSE, "none")

HostBeforePipelineRun ==
    HostAt("before_pipeline") /\ before_pipeline_run(arg.pipeline, arg.catalog)

HostAfterDatasetLoaded == HostAt("loaded") /\ after_dataset_loaded(HostNextName)

HostBeforeNodeRun ==
    HostAt("before_node") /\ \E func_name \in FuncNames : before_node_run(func_name)

HostAfterNodeRun == HostAt("after_node") /\ after_node_run

HostAfterDatasetSaved == HostAt("saved") /\ after_dataset_saved(HostNextName)

HostAfterPipelineRun == HostAt("after_pipeline") /\ after_pipeline_run

HostCliRunReturn == HostAt("cli_return") /\ cli_run_return

HostRunNext ==
    \/ HostCliRun
    \/ HostBeforePipelineRun
    \/ HostAfterDatasetLoaded
    \/ HostBeforeNodeRun
    \/ HostAfterNodeRun
    \/ HostAfterDatasetSaved
    \/ HostAfterPipelineRun
    \/ HostCliRunReturn

SpecHostRun == HostRunInit /\ [][HostRunNext]_vars

-----------------------------------------------------------------------------
(* C28 *)

\* C28: in an enabled sequential run in which every node has finished once
\* and every persisted in-scope input has been loaded once and every
\* persisted in-scope output saved once, under the pipeline's dotted names,
\* the state just before run-finished has each counter equal to its total.
C28_OrderlyRunCompletesCounters ==
    (HostAt("after_pipeline") /\ raised = "none") =>
        \A t \in TaskNames : tasks[t].completed = tasks[t].total

-----------------------------------------------------------------------------
(* C29 *)

\* C29: in a table that is not collapsed, for every row and every
\* registered pipeline p, the cell under the column headed p is the check
\* mark if and only if p is in the pipelines list of the row's record,
\* whatever the order in which the registry lists its pipelines.
C29_MarkUnderOwnHeader ==
    (pc = "table" /\ Len(arg.pipes) <= KEDRO_RICH_CATALOG_LIST_THRESHOLD) =>
        LET first == Len(ret.columns) - Len(arg.pipes) + 1
        IN  \A r \in DOMAIN ret.rows :
                \A c \in first..Len(ret.columns) :
                    ret.rows[r].cells[c] = CheckMark
                        <=> \E j \in DOMAIN arg.records[r].pipelines :
                                arg.records[r].pipelines[j] = ret.columns[c]

-----------------------------------------------------------------------------
(* C30 *)

\* C30: the run command given both --parallel and --runner raises
\* KedroCliError and does nothing else: the command stays where it was (no
\* session is created), the runner and the progress flag are left as they
\* were, no state of the hooks changes, and no step follows the failure (no
\* pipeline is run).
C30_BothOptionsFailFirst ==
    [][/\ \A runner \in RunnerOptions \ {"none"} :
             cli_run(TRUE, runner) =>
                 /\ raised' = "KedroCliError"
                 /\ cliPc' = "idle"
                 /\ UNCHANGED <<envFlag, cliRunner, run, progress, task_count,
                                io_datasets_in_catalog, pipeline_inputs,
                                pipeline_outputs, tasks>>
       /\ raised = "KedroCliError" => UNCHANGED vars]_vars

\* The command has failed with KedroCliError after an earlier command ran
\* a pipeline with progress and returned: the flag is not set, the state of
\* the finished run is as that run left it.
C30_Witness ==
    /\ raised = "KedroCliError"
    /\ cliPc = "idle"
    /\ ~envFlag
    /\ progress
    /\ run.phase = "finished"
    /\ cliRunner = "SequentialRunner"

====
